---- MODULE Spec2Model ----
(***************************************************************************)
(* Model of valibot's instruction interpreter (valibot/test_execution.py), *)
(* its key-path normalisation helpers (valibot/util.py), the page          *)
(* scraper's selector synthesis (valibot/util.py, class PageScraper), the  *)
(* callers of the interpreter (valibot/engine.py) and the JSON extraction  *)
(* loop and SIGINT handler of main.py.                                     *)
(*                                                                         *)
(* Strings that the code inspects character by character (instruction     *)
(* keys, attribute values, element texts) are sequences of one-character   *)
(* strings.                                                                *)
(***************************************************************************)
EXTENDS Integers, Sequences, FiniteSets, TLC

VARIABLES
    jsonInstruction,  \* parse_dict(testData): ordered mapping, a sequence of [key, value]
    common_prefix,    \* test_execution.py:29
    testItem,         \* test_execution.py:33, ordered mapping after normalisation
    pc,               \* position of the running function
    step,             \* test_execution.py:46/48
    ops,              \* page operations issued so far, in order
    sleeps,           \* steps after which time.sleep(time_to_wait) ran
    page,             \* effects the page operations had on the page
    trace,            \* "off" | "recording" | "stopped"  (context.tracing)
    traceZip,         \* TRUE once trace.zip was written under OUTPUT_DIR
    browser,          \* "none" | "open" | "closed"
    error,            \* the exception testExecution propagated, "" if none
    dom,              \* the elements of the page PageScraper reads, in document order
    scraped,          \* the lists scrape_elements has built so far
    unreadable,       \* positions in dom of the elements whose attribute reads raise
    engine,           \* engine.py: the frame above testExecution and what it hands up
    main              \* main.py: the JSON extraction loop of main and what main returns

scrapeVars == <<dom, scraped, unreadable>>

callerVars == <<engine, main>>

execVars == <<jsonInstruction, common_prefix, testItem, step, ops, sleeps,
              page, trace, traceZip, browser, error>>

vars == <<jsonInstruction, common_prefix, testItem, pc, step, ops, sleeps,
          page, trace, traceZip, browser, error, dom, scraped, unreadable, engine,
          main>>

----------------------------------------------------------------------------
(* Bounds *)

MaxKeyLen == 3
MaxKeys == 2

----------------------------------------------------------------------------
(* Python string primitives on character sequences *)

\* str.startswith
StartsWith(s, p) ==
    /\ Len(p) <= Len(s)
    /\ SubSeq(s, 1, Len(p)) = p

\* str.replace(old, '') : every non-overlapping occurrence, scanning from the left;
\* with old = '' the string is returned unchanged
RECURSIVE Replace(_, _)
Replace(s, old) ==
    IF old = <<>> \/ Len(s) < Len(old) THEN s
    ELSE IF SubSeq(s, 1, Len(old)) = old
         THEN Replace(SubSeq(s, Len(old) + 1, Len(s)), old)
         ELSE <<Head(s)>> \o Replace(Tail(s), old)

\* str.split(".") : always at least one segment, empty segments are kept
RECURSIVE Split(_)
Split(s) ==
    LET dots == {i \in 1..Len(s) : s[i] = "."}
    IN  IF dots = {} THEN <<s>>
        ELSE LET d == CHOOSE i \in dots : \A j \in dots : i <= j
             IN  <<SubSeq(s, 1, d - 1)>> \o Split(SubSeq(s, d + 1, Len(s)))

\* min(len(s) for s in strings), strings non-empty
ShortestLen(strings) ==
    CHOOSE n \in {Len(strings[i]) : i \in 1..Len(strings)} :
        \A i \in 1..Len(strings) : n <= Len(strings[i])

----------------------------------------------------------------------------
(* valibot/util.py: find_common_prefix, remove_common_prefix *)

\* the loop of find_common_prefix from 0-based position i on
RECURSIVE PrefixScan(_, _, _)
PrefixScan(strings, i, shortest) ==
    IF i >= shortest THEN SubSeq(strings[1], 1, shortest)
    ELSE IF \A k \in 1..Len(strings) : strings[k][i + 1] = strings[1][i + 1]
         THEN PrefixScan(strings, i + 1, shortest)
         ELSE SubSeq(strings[1], 1, i)

\* the same loop returning strings[0][:i+1] at the first disagreement
RECURSIVE PrefixScanOffByOne(_, _, _)
PrefixScanOffByOne(strings, i, shortest) ==
    IF i >= shortest THEN SubSeq(strings[1], 1, shortest)
    ELSE IF \A k \in 1..Len(strings) : strings[k][i + 1] = strings[1][i + 1]
         THEN PrefixScanOffByOne(strings, i + 1, shortest)
         ELSE SubSeq(strings[1], 1, i + 1)

find_common_prefix_OffByOne(strings) ==
    IF strings = <<>> THEN <<>>
    ELSE PrefixScanOffByOne(strings, 0, ShortestLen(strings))

\* find_common_prefix without its "if not strings" guard: min() of an empty
\* sequence raises ValueError, so no empty string is returned
find_common_prefix_NoGuard(strings) ==
    IF strings = <<>> THEN <<"ValueError">>
    ELSE PrefixScan(strings, 0, ShortestLen(strings))

find_common_prefix(strings) ==
    IF strings = <<>> THEN <<>>
    ELSE PrefixScan(strings, 0, ShortestLen(strings))

\* d[key] = value on an insertion-ordered dict: an existing key keeps its
\* position and takes the new value, a new key is appended
DictSet(d, key, value) ==
    IF \E j \in 1..Len(d) : d[j].key = key
    THEN [j \in 1..Len(d) |->
             IF d[j].key = key THEN [key |-> key, value |-> value] ELSE d[j]]
    ELSE Append(d, [key |-> key, value |-> value])

\* the dict comprehension of remove_common_prefix over the first n items
RECURSIVE RemoveUpTo(_, _, _)
RemoveUpTo(json_dict, prefix, n) ==
    IF n = 0 THEN <<>>
    ELSE DictSet(RemoveUpTo(json_dict, prefix, n - 1),
                 Replace(json_dict[n].key, prefix),
                 json_dict[n].value)

remove_common_prefix(json_dict, prefix) ==
    RemoveUpTo(json_dict, prefix, Len(json_dict))

\* jsonInstruction.keys()
Keys(d) == [i \in 1..Len(d) |-> d[i].key]

IsPrefixOfAll(p, strings) ==
    \A i \in 1..Len(strings) : StartsWith(strings[i], p)

----------------------------------------------------------------------------
(* Normalisation on its own: every ordered mapping with distinct keys over  *)
(* a two-letter alphabet, keys up to MaxKeyLen, up to MaxKeys entries.      *)

NormChars == {"a", "."}

RECURSIVE StringsUpTo(_)
StringsUpTo(n) ==
    IF n = 0 THEN {<<>>}
    ELSE LET shorter == StringsUpTo(n - 1)
         IN  shorter \cup {Append(s, c) : s \in shorter, c \in NormChars}

NormKeys == StringsUpTo(MaxKeyLen)

RECURSIVE KeyListsUpTo(_, _)
KeyListsUpTo(universe, n) ==
    IF n = 0 THEN {<<>>}
    ELSE LET shorter == KeyListsUpTo(universe, n - 1)
         IN  shorter \cup
             {Append(l, k) : l \in shorter,
                             k \in universe}

Distinct(l) == \A i, j \in 1..Len(l) : i # j => l[i] # l[j]

\* the i-th instruction carries the value i (a unique tag)
Mapping(keys) == [i \in 1..Len(keys) |-> [key |-> keys[i], value |-> i]]

NoPage == [location |-> 0, fields |-> {}, clicked |-> {}]

\* main.py:186: main is about to call the LLM for the first time
MainStart == [at |-> "prompt", count |-> 0, json_data |-> "None", responses |-> <<>>,
              extractions |-> 0, passed |-> "None", result |-> <<>>]

\* engine.py:81: _handle_run has called testExecution; nothing raised or
\* returned yet
InHandleRun == [at |-> "_handle_run", exc |-> "", value |-> "", returned |-> <<>>]

NoScrape == [textareas |-> <<>>, inputs |-> <<>>, buttons |-> <<>>,
             labels |-> <<>>, divs |-> <<>>, selects |-> <<>>,
             links |-> <<>>, forms |-> <<>>]

InitNorm ==
    /\ \E keys \in {l \in KeyListsUpTo(NormKeys, MaxKeys) : Distinct(l)} :
           jsonInstruction = Mapping(keys)
    /\ common_prefix = <<>>
    /\ testItem = <<>>
    /\ pc = "find"
    /\ step = 0
    /\ ops = <<>>
    /\ sleeps = <<>>
    /\ page = NoPage
    /\ trace = "off"
    /\ traceZip = FALSE
    /\ browser = "none"
    /\ error = ""
    /\ dom = <<>>
    /\ scraped = NoScrape
    /\ unreadable = {}
    /\ engine = InHandleRun
    /\ main = MainStart

FindCommonPrefix ==
    /\ pc = "find"
    /\ common_prefix' = find_common_prefix(Keys(jsonInstruction))
    /\ pc' = "remove"
    /\ UNCHANGED <<jsonInstruction, testItem, step, ops, sleeps, page, trace,
                   traceZip, browser, error>>
    /\ UNCHANGED <<scrapeVars, callerVars>>

RemoveCommonPrefix ==
    /\ pc = "remove"
    /\ testItem' = remove_common_prefix(jsonInstruction, common_prefix)
    /\ pc' = "normalized"
    /\ UNCHANGED <<jsonInstruction, common_prefix, step, ops, sleeps, page,
                   trace, traceZip, browser, error>>
    /\ UNCHANGED <<scrapeVars, callerVars>>

NextNorm == FindCommonPrefix \/ RemoveCommonPrefix

SpecNorm == InitNorm /\ [][NextNorm]_vars

----------------------------------------------------------------------------
(* Claims about normalisation, checked under SpecNorm *)

\* C1: for a non-empty key collection the returned prefix is a prefix of every
\* key, and no string one character longer is a prefix of every key.
C1_LongestCommonPrefix ==
    (pc # "find" /\ jsonInstruction # <<>>) =>
        /\ IsPrefixOfAll(common_prefix, Keys(jsonInstruction))
        /\ \A c \in NormChars :
               ~IsPrefixOfAll(Append(common_prefix, c), Keys(jsonInstruction))

\* two keys that agree on a non-empty proper prefix and then differ
C1_Witness ==
    /\ pc # "find"
    /\ Len(jsonInstruction) = 2
    /\ common_prefix # <<>>
    /\ Len(common_prefix) < Len(jsonInstruction[1].key)
    /\ Len(common_prefix) < Len(jsonInstruction[2].key)

\* C2: re-attaching the prefix to the normalised keys gives back every
\* original key exactly.
C2_RoundTrip ==
    pc = "normalized" =>
        \A i \in 1..Len(jsonInstruction) :
            \E j \in 1..Len(testItem) :
                common_prefix \o testItem[j].key = jsonInstruction[i].key

\* C8: for an empty key set the prefix is the empty string and the normalised
\* mapping is empty.
C8_EmptyKeySet ==
    (pc = "normalized" /\ jsonInstruction = <<>>) =>
        (common_prefix = <<>> /\ testItem = <<>>)

C8_Witness == pc = "normalized" /\ jsonInstruction = <<>>

----------------------------------------------------------------------------
(* valibot/test_execution.py: testExecution *)

MaxInstr == 3

time_to_wait == 3

W_url == <<"u", "r", "l">>
W_input == <<"i", "n", "p", "u", "t">>
W_textarea == <<"t", "e", "x", "t", "a", "r", "e", "a">>
W_button == <<"b", "u", "t", "t", "o", "n">>
W_placeholder == <<"p", "l", "a", "c", "e", "h", "o", "l", "d", "e", "r">>
W_run == <<"r", ".">>

\* The instruction keys a run is drawn from: well-formed keys of every
\* category under the run identifier "r.", and the irregular shapes
\* parse_dict can hand over as well.
ExecKeys ==
    { W_run \o W_url,                                                \* r.url
      W_run \o W_input \o <<".">> \o W_placeholder \o <<".", "N">>,      \* r.input.placeholder.N
      W_run \o W_textarea \o <<".">> \o W_placeholder \o <<"1", ".", "N">>, \* r.textarea.placeholder1.N
      W_run \o W_button \o <<".", "S">>,                              \* r.button.S
      W_run \o W_input \o <<".", "n", "a", "m", "e", ".", "N">>,      \* r.input.name.N
      W_run \o W_input,                                              \* r.input
      W_run \o W_input \o <<".">> \o W_placeholder,                  \* r.input.placeholder
      W_run \o <<"U", "R", "L", ".", "x">>,                          \* r.URL.x
      W_run \o <<"s", "e", "l", "e", "c", "t", ".", "x">>,           \* r.select.x
      W_run \o W_run \o W_url,                                       \* r.r.url
      <<"x", ".">> \o W_url,                                         \* x.url
      W_run,                                                         \* r.
      W_run \o W_button,                                             \* r.button
      W_url,                                                         \* url
      W_run \o W_input \o <<".">> \o W_placeholder \o <<"2", ".", "N">> } \* r.input.placeholder2.N

Init ==
    /\ \E keys \in {l \in KeyListsUpTo(ExecKeys, MaxInstr) : Distinct(l)} :
           jsonInstruction = Mapping(keys)
    /\ common_prefix = <<>>
    /\ testItem = <<>>
    /\ pc = "start"
    /\ step = 0
    /\ ops = <<>>
    /\ sleeps = <<>>
    /\ page = NoPage
    /\ trace = "off"
    /\ traceZip = FALSE
    /\ browser = "none"
    /\ error = ""
    /\ dom = <<>>
    /\ scraped = NoScrape
    /\ unreadable = {}
    /\ engine = InHandleRun
    /\ main = MainStart

\* the effect a page operation has on the page when it succeeds
ApplyOp(pg, o) ==
    IF o.op = "goto" THEN [pg EXCEPT !.location = o.value]
    ELSE IF o.op = "fill"
         THEN [pg EXCEPT !.fields = @ \cup {[tag |-> o.tag, placeholder |-> o.target,
                                             value |-> o.value]}]
         ELSE [pg EXCEPT !.clicked = @ \cup {o.value}]

\* a failing page operation that also resets the page to its start state
PageOp_Rollback(s, o, ok) ==
    IF ok THEN [s EXCEPT !.ops = Append(@, o), !.page = ApplyOp(@, o)]
    ELSE [s EXCEPT !.ops = Append(@, o), !.page = NoPage, !.error = "PageError"]

\* a failing page operation that is attempted a second time before giving up
PageOp_RetryOnce(s, o, ok) ==
    IF ok THEN [s EXCEPT !.ops = Append(@, o), !.page = ApplyOp(@, o)]
    ELSE [s EXCEPT !.ops = Append(Append(@, o), o), !.error = "PageError"]

\* page.goto / page.fill / page.click: the operation is issued; it either
\* takes effect or raises, leaving the page as it was
PageOp(s, o, ok) ==
    IF ok THEN [s EXCEPT !.ops = Append(@, o), !.page = ApplyOp(@, o)]
    ELSE [s EXCEPT !.ops = Append(@, o), !.error = "PageError"]

\* a pacing delay that runs even after the operation before it raised
Sleep_AfterFailure(s, n) ==
    [s EXCEPT !.sleeps = Append(@, [step |-> n, seconds |-> time_to_wait])]

\* time.sleep(time_to_wait), reached only when nothing raised before it
Sleep(s, n) ==
    IF s.error # "" THEN s
    ELSE [s EXCEPT !.sleeps = Append(@, [step |-> n, seconds |-> time_to_wait])]

\* test_execution.py:50-52
GotoBlock(s, key, value, ok, n) ==
    IF s.error # "" \/ ~StartsWith(key, W_url) THEN s
    ELSE PageOp(s, [op |-> "goto", tag |-> "", target |-> <<>>,
                    value |-> value, step |-> n], ok)

\* a fill that takes the placeholder text from the second segment
FillBlock_SecondSegment(s, word, tag, key, value, ok, n) ==
    IF s.error # "" \/ ~StartsWith(key, word) THEN s
    ELSE LET input_list == Split(key)
         IN  IF Len(input_list) < 2 THEN [s EXCEPT !.error = "IndexError"]
             ELSE IF StartsWith(input_list[2], W_placeholder)
                  THEN Sleep(PageOp(s, [op |-> "fill", tag |-> tag,
                                        target |-> input_list[2],
                                        value |-> value, step |-> n], ok), n)
                  ELSE Sleep(s, n)

\* test_execution.py:53-59 (tag "input") and 60-66 (tag "textarea")
FillBlock(s, word, tag, key, value, ok, n) ==
    IF s.error # "" \/ ~StartsWith(key, word) THEN s
    ELSE LET input_list == Split(key)
         IN  IF Len(input_list) < 2 THEN [s EXCEPT !.error = "IndexError"]
             ELSE IF StartsWith(input_list[2], W_placeholder)
                  THEN IF Len(input_list) < 3 THEN [s EXCEPT !.error = "IndexError"]
                       ELSE Sleep(PageOp(s, [op |-> "fill", tag |-> tag,
                                             target |-> input_list[3],
                                             value |-> value, step |-> n], ok), n)
                  ELSE Sleep(s, n)

\* a click that reads the qualifier input_list[1] before clicking
ClickBlock_NeedsQualifier(s, key, value, ok, n) ==
    IF s.error # "" \/ ~StartsWith(key, W_button) THEN s
    ELSE IF Len(Split(key)) < 2 THEN [s EXCEPT !.error = "IndexError"]
         ELSE Sleep(PageOp(s, [op |-> "click", tag |-> "button", target |-> <<>>,
                               value |-> value, step |-> n], ok), n)

\* test_execution.py:67-72
ClickBlock(s, key, value, ok, n) ==
    IF s.error # "" \/ ~StartsWith(key, W_button) THEN s
    ELSE Sleep(PageOp(s, [op |-> "click", tag |-> "button", target |-> <<>>,
                          value |-> value, step |-> n], ok), n)

Recognised(key) ==
    \/ StartsWith(key, W_url)
    \/ StartsWith(key, W_input)
    \/ StartsWith(key, W_textarea)
    \/ StartsWith(key, W_button)

\* a loop body that ends with "else: raise" for a key of no known category
Dispatch_Strict(s, key, value, ok, n) ==
    IF ~Recognised(key) THEN [s EXCEPT !.error = "ValueError"]
    ELSE ClickBlock(
             FillBlock(
                 FillBlock(GotoBlock(s, key, value, ok, n),
                           W_input, "input", key, value, ok, n),
                 W_textarea, "textarea", key, value, ok, n),
             key, value, ok, n)

\* the body of the for loop, test_execution.py:48-72: four independent ifs
Dispatch(s, key, value, ok, n) ==
    ClickBlock(
        FillBlock(
            FillBlock(GotoBlock(s, key, value, ok, n),
                      W_input, "input", key, value, ok, n),
            W_textarea, "textarea", key, value, ok, n),
        key, value, ok, n)

\* test_execution.py:28-35; common_prefix.split(".")[-2] raises IndexError
\* when the prefix holds no "."
Normalize ==
    /\ pc = "start"
    /\ LET p == find_common_prefix(Keys(jsonInstruction))
       IN  /\ common_prefix' = p
           /\ IF Len(Split(p)) < 2
              THEN /\ testItem' = testItem
                   /\ error' = "IndexError"
                   /\ pc' = "raised"
              ELSE /\ testItem' = remove_common_prefix(jsonInstruction, p)
                   /\ error' = error
                   /\ pc' = "open"
    /\ UNCHANGED <<jsonInstruction, step, ops, sleeps, page, trace, traceZip, browser>>
    /\ UNCHANGED <<scrapeVars, callerVars>>

\* a session that is opened without context.tracing.start
OpenSession_NoTracing(ok) ==
    /\ pc = "open"
    /\ IF ok
       THEN /\ browser' = "open"
            /\ pc' = "loop"
            /\ error' = error
       ELSE /\ browser' = browser
            /\ pc' = "raised"
            /\ error' = "LaunchError"
    /\ step' = 0
    /\ UNCHANGED <<jsonInstruction, common_prefix, testItem, ops, sleeps, page, trace,
                   traceZip>>
    /\ UNCHANGED <<scrapeVars, callerVars>>

\* test_execution.py:37-46; launching the browser can fail
OpenSession(ok) ==
    /\ pc = "open"
    /\ IF ok
       THEN /\ browser' = "open"
            /\ trace' = "recording"
            /\ pc' = "loop"
            /\ error' = error
       ELSE /\ browser' = browser
            /\ trace' = trace
            /\ pc' = "raised"
            /\ error' = "LaunchError"
    /\ step' = 0
    /\ UNCHANGED <<jsonInstruction, common_prefix, testItem, ops, sleeps, page, traceZip>>
    /\ UNCHANGED <<scrapeVars, callerVars>>

\* one iteration of the for loop, test_execution.py:47-72; an exception leaves
\* the with block and is re-raised by the handler at 78-81
Step(ok) ==
    /\ pc = "loop"
    /\ step < Len(testItem)
    /\ LET n == step + 1
           s == Dispatch([page |-> page, ops |-> ops, sleeps |-> sleeps, error |-> ""],
                         testItem[n].key, testItem[n].value, ok, n)
       IN  /\ step' = n
           /\ page' = s.page
           /\ ops' = s.ops
           /\ sleeps' = s.sleeps
           /\ error' = s.error
           /\ pc' = IF s.error = "" THEN "loop" ELSE "raised"
    /\ UNCHANGED <<jsonInstruction, common_prefix, testItem, trace, traceZip, browser>>
    /\ UNCHANGED <<scrapeVars, callerVars>>

\* a return that stops tracing but leaves the browser open
Teardown_NoClose ==
    /\ pc = "loop"
    /\ step = Len(testItem)
    /\ trace' = "stopped"
    /\ traceZip' = TRUE
    /\ pc' = "returned"
    /\ UNCHANGED <<jsonInstruction, common_prefix, testItem, step, ops, sleeps, page, error,
                   browser>>
    /\ UNCHANGED <<scrapeVars, callerVars>>

\* test_execution.py:74-76, reached when the loop is exhausted
Teardown ==
    /\ pc = "loop"
    /\ step = Len(testItem)
    /\ trace' = "stopped"
    /\ traceZip' = TRUE
    /\ browser' = "closed"
    /\ pc' = "returned"
    /\ UNCHANGED <<jsonInstruction, common_prefix, testItem, step, ops, sleeps, page, error>>
    /\ UNCHANGED <<scrapeVars, callerVars>>

Next ==
    \/ Normalize
    \/ \E ok \in BOOLEAN : OpenSession(ok)
    \/ \E ok \in BOOLEAN : Step(ok)
    \/ Teardown

Spec == Init /\ [][Next]_vars

Terminated == pc \in {"returned", "raised"}

\* the exception that leaves testExecution, test_execution.py:78-81: the handler
\* logs and re-raises with a bare raise, so the caller gets the exception of the
\* failing call as it was raised; a Playwright error was built from the call
\* (selector or URL, and value), and testExecution attaches no instruction to it
Propagated ==
    [type |-> error,
     call |-> IF error = "PageError" THEN {ops[Len(ops)]} ELSE {},
     instruction |-> {}]

----------------------------------------------------------------------------
(* valibot/engine.py: the callers of testExecution *)

\* engine.py:73-88: testExecution returned and msg is returned, or it raised and
\* the handler logs and re-raises
HandleRun ==
    /\ Terminated
    /\ engine.at = "_handle_run"
    /\ engine' = [engine EXCEPT !.at = "process_action",
                                !.exc = IF pc = "raised" THEN Propagated.type ELSE "",
                                !.value = IF pc = "raised" THEN "" ELSE "msg"]
    /\ UNCHANGED <<pc, execVars, scrapeVars, main>>

\* the same function without the except clause at engine.py:63-69
ProcessActionResult_NoCatch(e) ==
    [e EXCEPT !.at = "runEngine"]

\* engine.py:36-71: what process_action hands to runEngine; every Exception is
\* caught, logged and turned into a returned status dict
ProcessActionResult(e) ==
    IF e.exc # ""
    THEN [e EXCEPT !.at = "runEngine", !.exc = "", !.value = "status: error"]
    ELSE [e EXCEPT !.at = "runEngine"]

ProcessAction ==
    /\ engine.at = "process_action"
    /\ engine' = ProcessActionResult(engine)
    /\ UNCHANGED <<pc, execVars, scrapeVars, main>>

\* engine.py:204-226: result is not looked at; only an exception out of
\* process_action gives the failure tuple
RunEngine ==
    /\ engine.at = "runEngine"
    /\ engine' = [engine EXCEPT
                      !.at = "done",
                      !.returned = IF engine.exc # ""
                                   THEN <<"Error", FALSE>>
                                   ELSE <<"Prompt Processing -- completed", TRUE>>]
    /\ UNCHANGED <<pc, execVars, scrapeVars, main>>

NextEngine ==
    \/ Next
    \/ HandleRun
    \/ ProcessAction
    \/ RunEngine

SpecEngine == Init /\ [][NextEngine]_vars

----------------------------------------------------------------------------
(* main.py: the SIGINT handler, delivered while testExecution runs *)

\* main.py:28-31: sys.exit(0) raises SystemExit in the main thread; it is not an
\* Exception, so the handler at test_execution.py:78 does not run, and lines
\* 74-75 are skipped; whether Chromium is gone when the process exits is up to
\* Playwright's context manager
Interrupt ==
    /\ pc = "loop"
    /\ pc' = "exited"
    /\ error' = "SystemExit"
    /\ browser' \in {"open", "closed"}
    /\ UNCHANGED <<jsonInstruction, common_prefix, testItem, step, ops, sleeps, page,
                   trace, traceZip>>
    /\ UNCHANGED <<scrapeVars, callerVars>>

NextSigint ==
    \/ Next
    \/ Interrupt

SpecSigint == Init /\ [][NextSigint]_vars

----------------------------------------------------------------------------
(* Claims about testExecution, checked under Spec *)

\* the page that results from the operations in done, all of them successful
RECURSIVE Effects(_)
Effects(done) ==
    IF done = <<>> THEN NoPage
    ELSE ApplyOp(Effects(SubSeq(done, 1, Len(done) - 1)), done[Len(done)])

\* C3: page operations are issued in the iteration order of the input mapping:
\* the operation of an earlier input instruction (its value is its input
\* position) is never issued after the operation of a later one.
C3_InputOrder ==
    \A a, b \in 1..Len(ops) : a < b => ops[a].value < ops[b].value

\* C4: every run that started tracing ends with tracing stopped and trace.zip
\* written, whether it returned or raised.
C4_TraceStoppedAtEnd ==
    (Terminated /\ trace # "off") => (trace = "stopped" /\ traceZip)

\* C5: when the page operation of instruction k fails, testExecution raises,
\* no operation of an instruction after k is issued, and the page keeps exactly
\* the effects of the operations issued before the failing one.
C5_AbortNoRollback ==
    error = "PageError" =>
        /\ pc = "raised"
        /\ ops # <<>>
        /\ ops[Len(ops)].step = step
        /\ \A i \in 1..Len(ops) : ops[i].step <= step
        /\ page = Effects(SubSeq(ops, 1, Len(ops) - 1))

\* a failure after an earlier operation took effect, with instructions left over
C5_Witness ==
    /\ error = "PageError"
    /\ Len(ops) >= 2
    /\ page # NoPage
    /\ step < Len(testItem)

\* C9: a run over an empty instruction mapping ends normally, with no page
\* operation and no error.
C9_EmptyRunSucceeds ==
    (jsonInstruction = <<>> /\ Terminated) =>
        (pc = "returned" /\ ops = <<>> /\ error = "")

\* C10: an instruction whose normalised key starts with none of "url",
\* "input", "textarea", "button" issues no page operation, raises nothing, and
\* the loop goes on to the next instruction.
C10_PermissiveSkip ==
    [][ (pc = "loop" /\ step < Len(testItem) /\ ~Recognised(testItem[step + 1].key))
            => /\ ops' = ops
               /\ page' = page
               /\ sleeps' = sleeps
               /\ error' = ""
               /\ pc' = "loop"
               /\ step' = step + 1 ]_vars

\* the empty key and "URL.x" have both been stepped over and the loop is still running
C10_Witness ==
    /\ pc = "loop"
    /\ ops = <<>>
    /\ \E i, j \in 1..step :
           /\ testItem[i].key = <<>>
           /\ testItem[j].key = <<"U", "R", "L", ".", "x">>

----------------------------------------------------------------------------
(* valibot/util.py: class PageScraper.  An element is a tag, its attributes *)
(* (each absent, {}, or present with one value, {v}) and its text; the      *)
(* attributes that are only copied into the record (value, placeholder,     *)
(* required, disabled, for) take no part in selector synthesis and are      *)
(* left out.                                                                *)

MaxElems == 2

AttrNames == {"data-testid", "id", "name", "type", "class", "href"}

El(tag, testid, id, name, type, class, text) ==
    [tag |-> tag,
     attrs |-> [a \in AttrNames |->
                   CASE a = "data-testid" -> testid
                     [] a = "id" -> id
                     [] a = "name" -> name
                     [] a = "type" -> type
                     [] a = "class" -> class
                     [] OTHER -> {}],
     text |-> text,
     nested |-> FALSE]

\* the same element as a descendant of the closest element before it that is
\* not itself nested (an option of a select, a control of a form)
Nested(e) == [e EXCEPT !.nested = TRUE]

\* <a href=...>
Link(href, id, text) ==
    [El("a", {}, id, {}, {}, {}, text) EXCEPT !.attrs["href"] = href]

V_a == <<"a">>
V_b == <<"b">>
V_n == <<"n">>
V_t == <<"t">>
V_c == <<"c">>
V_o == <<"o">>
V_ok == <<"o", "k">>
V_text == <<"t", "e", "x", "t">>
V_submit == <<"s", "u", "b", "m", "i", "t">>
V_button == <<"b", "u", "t", "t", "o", "n">>
V_slashInput == <<"/", "/", "i", "n", "p", "u", "t">>

\* The elements a page is drawn from.
ElementUniverse ==
    { El("input", {}, {V_a}, {V_n}, {V_text}, {}, <<>>),
      El("input", {}, {V_b}, {V_n}, {V_text}, {}, <<>>),
      El("input", {}, {}, {}, {}, {}, <<>>),
      El("input", {}, {<<>>}, {}, {V_text}, {}, <<>>),
      El("input", {}, {V_a}, {}, {V_submit}, {}, <<>>),
      El("input", {V_t}, {V_a}, {V_n}, {}, {}, <<>>),
      El("textarea", {}, {V_a}, {V_n}, {}, {}, <<>>),
      El("textarea", {}, {}, {}, {}, {}, <<>>),
      El("button", {}, {V_a}, {V_n}, {V_submit}, {}, V_ok),
      El("button", {}, {V_b}, {V_n}, {V_submit}, {}, V_ok),
      El("button", {}, {}, {}, {}, {}, <<>>),
      El("button", {}, {}, {}, {}, {}, V_o),
      El("button", {}, {}, {V_n}, {V_button}, {}, V_ok),
      El("label", {}, {V_a}, {}, {}, {}, V_ok),
      El("label", {}, {}, {}, {}, {}, V_o),
      El("label", {}, {}, {}, {}, {}, <<>>),
      El("div", {V_a}, {V_b}, {}, {}, {}, <<>>),
      El("div", {V_a \o V_slashInput}, {V_b \o V_slashInput}, {}, {}, {}, <<>>),
      El("div", {}, {}, {}, {}, {V_c}, V_ok),
      El("div", {V_a}, {V_b}, {}, {}, {}, V_ok),
      El("div", {}, {V_b}, {}, {}, {}, <<>>),
      El("div", {}, {}, {}, {}, {}, <<>>),
      El("select", {}, {V_a}, {V_n}, {}, {}, <<>>),
      Nested(El("option", {}, {}, {}, {}, {}, V_ok)),
      Link({V_a}, {}, V_ok),
      El("form", {}, {V_a}, {V_n}, {}, {}, <<>>),
      Nested(El("input", {}, {V_a}, {V_n}, {V_text}, {}, <<>>)),
      Nested(El("button", {}, {}, {}, {V_submit}, {}, V_ok)) }

RECURSIVE DomsUpTo(_)
DomsUpTo(n) ==
    IF n = 0 THEN {<<>>}
    ELSE LET shorter == DomsUpTo(n - 1)
         IN  shorter \cup {Append(d, e) : d \in shorter, e \in ElementUniverse}

\* element.get_attribute(a) or default
AttrOr(e, a, default) ==
    IF e.attrs[a] = {} THEN default
    ELSE LET v == CHOOSE x \in e.attrs[a] : TRUE
         IN  IF v = <<>> THEN default ELSE v

\* t in s, on character sequences
Contains(s, t) ==
    \E i \in 1..(Len(s) + 1) :
        /\ i + Len(t) - 1 <= Len(s)
        /\ SubSeq(s, i, i + Len(t) - 1) = t

\* //tag[@attr='value']
EqSel(tag, attr, value) ==
    [tag |-> tag, kind |-> "eq", attr |-> attr, value |-> value]

\* //tag[contains(text(),'value')]
TextSel(tag, value) ==
    [tag |-> tag, kind |-> "contains", attr |-> "text", value |-> value]

Matches(sel, e) ==
    /\ e.tag = sel.tag
    /\ IF sel.kind = "eq" THEN sel.value \in e.attrs[sel.attr]
       ELSE Contains(e.text, sel.value)

\* self.page.locator(xpath).all()
Located(sel, d) == {i \in 1..Len(d) : Matches(sel, d[i])}

\* the indices of S in document order
RECURSIVE Ascending(_)
Ascending(S) ==
    IF S = {} THEN <<>>
    ELSE LET m == CHOOSE x \in S : \A y \in S : x <= y
         IN  <<m>> \o Ascending(S \ {m})

\* the synthesis loop with "if len(elements) >= 1"
RECURSIVE FirstUnique_AnyMatch(_, _)
FirstUnique_AnyMatch(cands, d) ==
    IF cands = <<>> THEN {}
    ELSE IF Cardinality(Located(Head(cands), d)) >= 1 THEN {Head(cands)}
         ELSE FirstUnique_AnyMatch(Tail(cands), d)

\* the synthesis loop of util.py:525-530, 555-560, 582-597, 616-627: the first
\* candidate that locates exactly one element is stored and the loop breaks
RECURSIVE FirstUnique(_, _)
FirstUnique(cands, d) ==
    IF cands = <<>> THEN {}
    ELSE IF Cardinality(Located(Head(cands), d)) = 1 THEN {Head(cands)}
         ELSE FirstUnique(Tail(cands), d)

\* util.py:514-523 and 544-553
FieldData(e) ==
    [p \in {"data-testid", "id", "name", "type"} |->
        IF p = "type" THEN AttrOr(e, p, V_text) ELSE AttrOr(e, p, <<>>)]

\* util.py:525-526 and 555-556
FieldCandidates(tag, data) ==
    <<EqSel(tag, "data-testid", data["data-testid"]), EqSel(tag, "id", data["id"]),
      EqSel(tag, "name", data["name"]), EqSel(tag, "type", data["type"])>>

FieldRecord(d, i) ==
    LET data == FieldData(d[i])
    IN  [el |-> i, data |-> data,
         xpath |-> FirstUnique(FieldCandidates(d[i].tag, data), d)]

\* the getter with one try block around the whole loop: the first failing read
\* ends the loop
get_textareas_TryAroundLoop(d, bad) ==
    LET all == {i \in 1..Len(d) : d[i].tag = "textarea"}
        ix == Ascending({i \in all : \A j \in all \cap bad : i < j})
    IN  [k \in 1..Len(ix) |-> FieldRecord(d, ix[k])]

\* util.py:509-537; an element in bad raises while its dict is built, is logged
\* and left out (533-535)
get_textareas(d, bad) ==
    LET ix == Ascending({i \in 1..Len(d) : d[i].tag = "textarea" /\ i \notin bad})
    IN  [k \in 1..Len(ix) |-> FieldRecord(d, ix[k])]

\* util.py:539-567
get_inputs(d, bad) ==
    LET ix == Ascending({i \in 1..Len(d) : d[i].tag = "input" /\ i \notin bad})
    IN  [k \in 1..Len(ix) |-> FieldRecord(d, ix[k])]

\* util.py:574-580
ButtonData(e) ==
    [p \in {"text", "type", "name", "id"} |->
        IF p = "text" THEN e.text
        ELSE IF p = "type" THEN AttrOr(e, p, V_button) ELSE AttrOr(e, p, <<>>)]

\* util.py:582-593: every candidate is a //button locator
ButtonCandidates(data) ==
    <<EqSel("button", "id", data["id"]), EqSel("button", "name", data["name"]),
      TextSel("button", data["text"]), EqSel("button", "type", data["type"])>>

\* 'button, input[type="button"], input[type="submit"]'
IsButtonLike(e) ==
    \/ e.tag = "button"
    \/ e.tag = "input" /\ e.attrs["type"] \cap {V_button, V_submit} # {}

\* util.py:569-603
get_buttons(d, bad) ==
    LET ix == Ascending({i \in 1..Len(d) : IsButtonLike(d[i]) /\ i \notin bad})
    IN  [k \in 1..Len(ix) |->
            LET data == ButtonData(d[ix[k]])
            IN  [el |-> ix[k], data |-> data,
                 xpath |-> FirstUnique(ButtonCandidates(data), d)]]

\* util.py:610-614
LabelData(e) ==
    [p \in {"text", "id"} |-> IF p = "text" THEN e.text ELSE AttrOr(e, p, <<>>)]

\* util.py:616-623
LabelCandidates(data) ==
    <<EqSel("label", "id", data["id"]), TextSel("label", data["text"])>>

\* util.py:605-633
get_labels(d, bad) ==
    LET ix == Ascending({i \in 1..Len(d) : d[i].tag = "label" /\ i \notin bad})
    IN  [k \in 1..Len(ix) |->
            LET data == LabelData(d[ix[k]])
            IN  [el |-> ix[k], data |-> data,
                 xpath |-> FirstUnique(LabelCandidates(data), d)]]

\* util.py:640-646; role is read like class and is left out
DivData(e) ==
    [p \in {"data-testid", "id", "class", "text"} |->
        IF p = "text" THEN e.text ELSE AttrOr(e, p, <<>>)]

\* util.py:651-654: the value and the text "//input" inside one quoted literal
DivSel(p, data) == EqSel("div", p, data[p] \o V_slashInput)

\* str.split() yields at least one word
HasWord(text) == \E k \in 1..Len(text) : text[k] # " "

\* one pass of the loop at util.py:648-663 for attribute p.  st.xpath is
\* div_data['xpath'] (absent when {}), st.textIsList and st.textTruthy describe
\* div_data['text'], st.appended counts divs.append(div_data), and st.raised
\* is set when .split() is called on a list (AttributeError, caught at 665)
DivPass(st, p, data, d) ==
    IF st.raised \/ data[p] = <<>> THEN st
    ELSE LET found == [st EXCEPT !.xpath =
                          IF Cardinality(Located(DivSel(p, data), d)) = 1
                          THEN {DivSel(p, data)} ELSE @]
         IN  IF ~found.textTruthy
             THEN [found EXCEPT !.appended = @ + 1]
             ELSE IF found.textIsList THEN [found EXCEPT !.raised = TRUE]
                  ELSE [found EXCEPT !.textIsList = TRUE,
                                     !.textTruthy = HasWord(data["text"]),
                                     !.appended = @ + 1]

\* util.py:648-649: only attributes with a non-empty value are tried
DivCandidates(data) ==
    LET ps == SelectSeq(<<"data-testid", "id">>, LAMBDA p : data[p] # <<>>)
    IN  [k \in 1..Len(ps) |-> DivSel(ps[k], data)]

\* the records one div contributes: every append holds the same dict object, so
\* every copy shows its final contents
DivEntries(d, i) ==
    LET data == DivData(d[i])
        st0 == [xpath |-> {}, textIsList |-> FALSE, textTruthy |-> data["text"] # <<>>,
                appended |-> 0, raised |-> FALSE]
        st == DivPass(DivPass(st0, "data-testid", data, d), "id", data, d)
    IN  [k \in 1..st.appended |-> [el |-> i, data |-> data, xpath |-> st.xpath]]

\* 'div[id], div[class], div[role], div[data-testid]'
IsListedDiv(e) ==
    /\ e.tag = "div"
    /\ \E a \in {"id", "class", "data-testid"} : e.attrs[a] # {}

RECURSIVE DivsFrom(_, _)
DivsFrom(d, ix) ==
    IF ix = <<>> THEN <<>>
    ELSE DivEntries(d, Head(ix)) \o DivsFrom(d, Tail(ix))

\* util.py:635-669
get_divs(d, bad) ==
    DivsFrom(d, Ascending({i \in 1..Len(d) : IsListedDiv(d[i]) /\ i \notin bad}))

\* container.locator(...): the nested elements that directly follow position i
Descendants(d, i) ==
    {j \in (i + 1)..Len(d) : \A k \in (i + 1)..j : d[k].nested}

\* select.locator('option')
OptionsOf(d, i) == {j \in Descendants(d, i) : d[j].tag = "option"}

\* util.py:671-695: the options are read inside the select's try block, so a
\* failing option read leaves the whole select out
get_selects(d, bad) ==
    LET ix == Ascending({i \in 1..Len(d) :
                            /\ d[i].tag = "select"
                            /\ i \notin bad
                            /\ OptionsOf(d, i) \cap bad = {}})
    IN  [k \in 1..Len(ix) |->
            LET opts == Ascending(OptionsOf(d, ix[k]))
            IN  [el |-> ix[k],
                 data |-> [p \in {"name", "id"} |-> AttrOr(d[ix[k]], p, <<>>)],
                 options |-> [o \in 1..Len(opts) |->
                                 [el |-> opts[o], text |-> d[opts[o]].text]]]]

\* util.py:697-713, 'a[href]'
get_links(d, bad) ==
    LET ix == Ascending({i \in 1..Len(d) :
                            /\ d[i].tag = "a"
                            /\ d[i].attrs["href"] # {}
                            /\ i \notin bad})
    IN  [k \in 1..Len(ix) |->
            [el |-> ix[k],
             data |-> [p \in {"text", "href", "id"} |->
                          IF p = "text" THEN d[ix[k]].text
                          ELSE AttrOr(d[ix[k]], p, <<>>)]]]

\* form.locator('input')
FormInputs(d, i) == {j \in Descendants(d, i) : d[j].tag = "input"}

\* form.locator('button, input[type="submit"]')
FormButtons(d, i) ==
    {j \in Descendants(d, i) :
        \/ d[j].tag = "button"
        \/ d[j].tag = "input" /\ V_submit \in d[j].attrs["type"]}

\* util.py:715-748: the nested inputs and buttons are read inside the form's try
\* block, so a failing read of one of them leaves the whole form out
get_forms(d, bad) ==
    LET ix == Ascending({i \in 1..Len(d) :
                            /\ d[i].tag = "form"
                            /\ i \notin bad
                            /\ (FormInputs(d, i) \cup FormButtons(d, i)) \cap bad = {}})
    IN  [k \in 1..Len(ix) |->
            LET ins == Ascending(FormInputs(d, ix[k]))
                bts == Ascending(FormButtons(d, ix[k]))
            IN  [el |-> ix[k],
                 data |-> [p \in {"id", "name"} |-> AttrOr(d[ix[k]], p, <<>>)],
                 inputs |-> [o \in 1..Len(ins) |->
                                [el |-> ins[o], type |-> AttrOr(d[ins[o]], "type", V_text),
                                 name |-> AttrOr(d[ins[o]], "name", <<>>)]],
                 buttons |-> [o \in 1..Len(bts) |->
                                 [el |-> bts[o], text |-> d[bts[o]].text,
                                  type |-> AttrOr(d[bts[o]], "type", V_submit)]]]]

\* scrape_elements, util.py:491-507: the getters run in the order of the dict literal
InitScrape ==
    /\ dom \in DomsUpTo(MaxElems)
    /\ unreadable \in {u \in SUBSET (1..Len(dom)) : Cardinality(u) <= 1}
    /\ scraped = NoScrape
    /\ engine = InHandleRun
    /\ main = MainStart
    /\ pc = "textareas"
    /\ jsonInstruction = <<>>
    /\ common_prefix = <<>>
    /\ testItem = <<>>
    /\ step = 0
    /\ ops = <<>>
    /\ sleeps = <<>>
    /\ page = NoPage
    /\ trace = "off"
    /\ traceZip = FALSE
    /\ browser = "none"
    /\ error = ""

GetTextareas ==
    /\ pc = "textareas"
    /\ scraped' = [scraped EXCEPT !.textareas = get_textareas(dom, unreadable)]
    /\ pc' = "inputs"
    /\ UNCHANGED <<dom, unreadable, execVars, callerVars>>

GetInputs ==
    /\ pc = "inputs"
    /\ scraped' = [scraped EXCEPT !.inputs = get_inputs(dom, unreadable)]
    /\ pc' = "buttons"
    /\ UNCHANGED <<dom, unreadable, execVars, callerVars>>

GetButtons ==
    /\ pc = "buttons"
    /\ scraped' = [scraped EXCEPT !.buttons = get_buttons(dom, unreadable)]
    /\ pc' = "labels"
    /\ UNCHANGED <<dom, unreadable, execVars, callerVars>>

GetLabels ==
    /\ pc = "labels"
    /\ scraped' = [scraped EXCEPT !.labels = get_labels(dom, unreadable)]
    /\ pc' = "divs"
    /\ UNCHANGED <<dom, unreadable, execVars, callerVars>>

GetDivs ==
    /\ pc = "divs"
    /\ scraped' = [scraped EXCEPT !.divs = get_divs(dom, unreadable)]
    /\ pc' = "selects"
    /\ UNCHANGED <<dom, unreadable, execVars, callerVars>>

GetSelects ==
    /\ pc = "selects"
    /\ scraped' = [scraped EXCEPT !.selects = get_selects(dom, unreadable)]
    /\ pc' = "links"
    /\ UNCHANGED <<dom, unreadable, execVars, callerVars>>

GetLinks ==
    /\ pc = "links"
    /\ scraped' = [scraped EXCEPT !.links = get_links(dom, unreadable)]
    /\ pc' = "forms"
    /\ UNCHANGED <<dom, unreadable, execVars, callerVars>>

GetForms ==
    /\ pc = "forms"
    /\ scraped' = [scraped EXCEPT !.forms = get_forms(dom, unreadable)]
    /\ pc' = "scraped"
    /\ UNCHANGED <<dom, unreadable, execVars, callerVars>>

NextScrape ==
    \/ GetTextareas
    \/ GetInputs
    \/ GetButtons
    \/ GetLabels
    \/ GetDivs
    \/ GetSelects
    \/ GetLinks
    \/ GetForms

SpecScrape == InitScrape /\ [][NextScrape]_vars

----------------------------------------------------------------------------
(* Claims about the scraper, checked under SpecScrape *)

\* the candidates the synthesis loop tries for a record of the given list, in
\* the order it tries them
CandidatesOf(list, rec) ==
    CASE list = "textareas" -> FieldCandidates("textarea", rec.data)
      [] list = "inputs" -> FieldCandidates("input", rec.data)
      [] list = "buttons" -> ButtonCandidates(rec.data)
      [] list = "labels" -> LabelCandidates(rec.data)
      [] OTHER -> DivCandidates(rec.data)

Lists == {"textareas", "inputs", "buttons", "labels", "divs"}

Unique(sel) == Cardinality(Located(sel, dom)) = 1

\* C6: a selector stored on a record located exactly one element of the page,
\* and a record none of whose candidates locates exactly one element carries no
\* selector.
C6_StoredSelectorUnique ==
    \A list \in Lists :
        \A k \in 1..Len(scraped[list]) :
            LET rec == scraped[list][k]
                cands == CandidatesOf(list, rec)
            IN  /\ \A sel \in rec.xpath : Unique(sel)
                /\ (\A j \in 1..Len(cands) : ~Unique(cands[j])) => rec.xpath = {}

\* a finished scrape that stored a selector on a button record and left another
\* record without one because a candidate located more than one element
C6_Witness ==
    /\ pc = "scraped"
    /\ \E k \in 1..Len(scraped.buttons) : scraped.buttons[k].xpath # {}
    /\ \E list \in Lists :
           \E k \in 1..Len(scraped[list]) :
               LET rec == scraped[list][k]
                   cands == CandidatesOf(list, rec)
               IN  /\ rec.xpath = {}
                   /\ \E j \in 1..Len(cands) : Cardinality(Located(cands[j], dom)) > 1

\* C7: the stored selector is the one built from the first attribute, in the
\* tag's priority order, whose locator matches exactly one element.
C7_PriorityLaw ==
    \A list \in Lists :
        \A k \in 1..Len(scraped[list]) :
            LET rec == scraped[list][k]
                cands == CandidatesOf(list, rec)
            IN  \A j \in 1..Len(cands) :
                    (Unique(cands[j]) /\ \A h \in 1..(j - 1) : ~Unique(cands[h]))
                        => rec.xpath = {cands[j]}

----------------------------------------------------------------------------
(* Further claims about testExecution, checked under Spec *)

\* C11: an instruction of the normalised mapping whose key starts with "button"
\* issues exactly one click, on the button whose name is the instruction's
\* value, whatever segments follow the category in the key.
C11_ClickByValue ==
    [][ (pc = "loop" /\ step < Len(testItem)
            /\ StartsWith(testItem[step + 1].key, W_button))
            => ops' = Append(ops, [op |-> "click", tag |-> "button", target |-> <<>>,
                                   value |-> testItem[step + 1].value,
                                   step |-> step + 1]) ]_vars

\* "button" and "button.S" have both been dispatched, each with one click
C11_Witness ==
    /\ \E i, j \in 1..step :
           /\ testItem[i].key = W_button
           /\ testItem[j].key = W_button \o <<".", "S">>
    /\ Cardinality({k \in 1..Len(ops) : ops[k].op = "click"}) = 2

\* the part of a key after the run identifier "r."
RunRelative(k) == SubSeq(k, Len(W_run) + 1, Len(k))

\* the category word a key starts with
CategoryOf(k) ==
    CHOOSE w \in {W_url, W_input, W_textarea, W_button} : StartsWith(k, w)

\* <runId>.<category>.<qualifiers> with run identifier "r" and a known category
HasRunForm(k) ==
    /\ StartsWith(k, W_run)
    /\ Recognised(RunRelative(k))
    /\ Len(Split(RunRelative(k))) >= 2

\* C12: when every key has the form <runId>.<category>.<qualifiers> with the
\* same run identifier, every normalised key still begins with the category of
\* its instruction.
C12_CategoryKept ==
    (pc = "loop" /\ jsonInstruction # <<>>
        /\ \A i \in 1..Len(jsonInstruction) : HasRunForm(jsonInstruction[i].key))
        => \A i \in 1..Len(jsonInstruction) :
               /\ i <= Len(testItem)
               /\ StartsWith(testItem[i].key,
                             CategoryOf(RunRelative(jsonInstruction[i].key)))


----------------------------------------------------------------------------
(* Further claims about the scraper, checked under SpecScrape *)

AllLists == Lists \cup {"selects", "links", "forms"}

\* the elements page.locator(...).all() enumerates for each list
EnumeratedFor(list, d) ==
    {i \in 1..Len(d) :
        CASE list = "textareas" -> d[i].tag = "textarea"
          [] list = "inputs" -> d[i].tag = "input"
          [] list = "buttons" -> IsButtonLike(d[i])
          [] list = "labels" -> d[i].tag = "label"
          [] list = "divs" -> IsListedDiv(d[i])
          [] list = "selects" -> d[i].tag = "select"
          [] list = "links" -> d[i].tag = "a" /\ d[i].attrs["href"] # {}
          [] OTHER -> d[i].tag = "form"}

\* the list scrape_elements stores under each key
ScrapeList(list, d, bad) ==
    CASE list = "textareas" -> get_textareas(d, bad)
      [] list = "inputs" -> get_inputs(d, bad)
      [] list = "buttons" -> get_buttons(d, bad)
      [] list = "labels" -> get_labels(d, bad)
      [] list = "divs" -> get_divs(d, bad)
      [] list = "selects" -> get_selects(d, bad)
      [] list = "links" -> get_links(d, bad)
      [] OTHER -> get_forms(d, bad)

RecordsOf(list, i) == {k \in 1..Len(scraped[list]) : scraped[list][k].el = i}

\* C13: after the scrape, every enumerated element whose attributes were read
\* without error has exactly one record in its tag's list, with or without a
\* selector.
C13_ScrapeComplete ==
    pc = "scraped" =>
        \A list \in Lists :
            \A i \in EnumeratedFor(list, dom) \ unreadable :
                Cardinality(RecordsOf(list, i)) = 1

\* building the record of element i of the given list raises: the element
\* itself cannot be read, or, for a select or a form, one of the nested
\* elements read while its record is built
ReadFails(list, d, bad, i) ==
    \/ i \in bad
    \/ list = "selects" /\ OptionsOf(d, i) \cap bad # {}
    \/ list = "forms" /\ (FormInputs(d, i) \cup FormButtons(d, i)) \cap bad # {}

\* C14: a failing read removes the records of the element being built and
\* nothing else: every list of the finished scrape is the list the failure-free
\* scrape of the same page gives, without the records whose building raised;
\* all eight lists are returned.
C14_ElementIsolation ==
    pc = "scraped" =>
        \A list \in AllLists :
            LET Kept(rec) == ~ReadFails(list, dom, unreadable, rec.el)
            IN  scraped[list] = SelectSeq(ScrapeList(list, dom, {}), Kept)

\* a finished scrape of a page whose first textarea could not be read and
\* whose second textarea is in the list
C14_Witness ==
    /\ pc = "scraped"
    /\ Len(dom) = 2
    /\ dom[1].tag = "textarea"
    /\ dom[2].tag = "textarea"
    /\ unreadable = {1}
    /\ Len(scraped.textareas) = 1
    /\ scraped.textareas[1].el = 2


----------------------------------------------------------------------------
(* Further claims about testExecution, checked under Spec *)

\* C15: a run over a mapping with exactly one key that got past the browser
\* launch has the whole key as common prefix, keeps the empty normalised key,
\* and returns with no page operation and no error.
C15_SingleKey ==
    (Len(jsonInstruction) = 1 /\ Terminated /\ error # "LaunchError") =>
        /\ common_prefix = jsonInstruction[1].key
        /\ testItem = <<[key |-> <<>>, value |-> jsonInstruction[1].value]>>
        /\ pc = "returned"
        /\ ops = <<>>
        /\ error = ""

\* C17: the exception a failed page operation makes testExecution propagate
\* carries the key-path of the failing instruction and the underlying cause.
C17_ErrorNamesInstruction ==
    (pc = "raised" /\ error = "PageError") =>
        /\ Propagated.call = {ops[Len(ops)]}
        /\ \/ Propagated.instruction = {testItem[step].key}
           \/ Propagated.instruction = {common_prefix \o testItem[step].key}

\* C19: when the keys of a non-empty mapping have the empty longest common
\* prefix, normalisation leaves the mapping as it is and raises nothing.
C19_NoCommonPrefix ==
    (pc # "start" /\ jsonInstruction # <<>> /\ common_prefix = <<>>) =>
        /\ testItem = jsonInstruction
        /\ error # "IndexError"

IsField(key) == StartsWith(key, W_input) \/ StartsWith(key, W_textarea)

\* the second segment exists and starts with "placeholder"
ActedOn(key) ==
    /\ Len(Split(key)) >= 2
    /\ StartsWith(Split(key)[2], W_placeholder)

\* C20: an input or textarea instruction whose second segment does not start
\* with "placeholder", or is missing, issues no page operation and raises
\* nothing: the loop goes past it.
C20_OnlyPlaceholderActs ==
    \A i \in 1..step :
        (IsField(testItem[i].key) /\ ~ActedOn(testItem[i].key)) =>
            /\ \A j \in 1..Len(ops) : ops[j].step # i
            /\ ~(pc = "raised" /\ step = i)

----------------------------------------------------------------------------
(* Claim about runEngine, checked under SpecEngine *)

\* C16: when a page operation failed inside testExecution, runEngine reports
\* failure and not ("Prompt Processing -- completed", True).
C16_FailureReachesCaller ==
    (engine.at = "done" /\ error = "PageError") =>
        /\ engine.returned[2] = FALSE
        /\ engine.returned[1] # "Prompt Processing -- completed"

----------------------------------------------------------------------------
(* Claim about cancellation, checked under SpecSigint *)

\* C18: after an interrupt during dispatch no further instruction runs, and
\* tracing is stopped and trace.zip written before the process exits.
C18_InterruptFlushesTrace ==
    pc = "exited" =>
        /\ trace = "stopped"
        /\ traceZip


----------------------------------------------------------------------------
(* Claims about the dispatch loop, checked under Spec *)

\* the key is <category>.placeholder<suffix>.<text>, category the given word
IsPlaceholderKey(key, word) ==
    /\ Len(Split(key)) = 3
    /\ Split(key)[1] = word
    /\ StartsWith(Split(key)[2], W_placeholder)

TagOf(key) == IF IsPlaceholderKey(key, W_input) THEN "input" ELSE "textarea"

\* C21: an instruction whose normalised key is input.placeholder<suffix>.<text>
\* or textarea.placeholder<suffix>.<text> issues exactly one fill, on the
\* element of that tag whose placeholder is <text>, with the instruction's
\* value.
C21_FillByPlaceholder ==
    [][ (/\ pc = "loop"
         /\ step < Len(testItem)
         /\ \/ IsPlaceholderKey(testItem[step + 1].key, W_input)
            \/ IsPlaceholderKey(testItem[step + 1].key, W_textarea))
            => ops' = Append(ops, [op |-> "fill",
                                   tag |-> TagOf(testItem[step + 1].key),
                                   target |-> Split(testItem[step + 1].key)[3],
                                   value |-> testItem[step + 1].value,
                                   step |-> step + 1]) ]_vars

\* an input fill and a textarea fill have both been issued, on placeholder "N"
C21_Witness ==
    /\ \E j \in 1..Len(ops) :
           /\ ops[j].op = "fill"
           /\ ops[j].tag = "input"
           /\ ops[j].target = <<"N">>
           /\ IsPlaceholderKey(testItem[ops[j].step].key, W_input)
    /\ \E j \in 1..Len(ops) :
           /\ ops[j].op = "fill"
           /\ ops[j].tag = "textarea"
           /\ ops[j].target = <<"N">>
           /\ IsPlaceholderKey(testItem[ops[j].step].key, W_textarea)

\* instruction i has been dispatched and did not raise
Passed(i) == i <= step /\ ~(pc = "raised" /\ step = i)

SleptAfter(i) == \E j \in 1..Len(sleeps) : sleeps[j].step = i

\* C22 as stated: a pacing delay follows an instruction exactly when that
\* instruction performed an input or textarea fill.
C22_PacingOnlyAfterFill ==
    \A i \in 1..Len(testItem) :
        Passed(i) =>
            (SleptAfter(i) <=> \E j \in 1..Len(ops) : ops[j].step = i /\ ops[j].op = "fill")

Paced(key) ==
    \/ StartsWith(key, W_input)
    \/ StartsWith(key, W_textarea)
    \/ StartsWith(key, W_button)

\* C22 as amended: one pacing delay of 3 follows an instruction exactly when
\* its key starts with "input", "textarea" or "button" and dispatching it raised
\* nothing, whether or not a fill was issued; no delay follows a navigation, an
\* unrecognised key or a raising instruction.
C22_PacedAfterFieldOrClick ==
    [][ (pc = "loop" /\ step < Len(testItem))
            => sleeps' = IF Paced(testItem[step + 1].key) /\ error' = ""
                         THEN Append(sleeps, [step |-> step + 1, seconds |-> 3])
                         ELSE sleeps ]_vars

\* a delay followed a click and a skipped input key, none followed the
\* navigation, and a later fill failed without a delay
C22_Witness ==
    /\ \E i \in 1..step : StartsWith(testItem[i].key, W_button) /\ SleptAfter(i)
    /\ \E i \in 1..step : StartsWith(testItem[i].key, W_input) /\ SleptAfter(i)
                             /\ \A j \in 1..Len(ops) : ops[j].step # i
    /\ error = "PageError"
    /\ ~SleptAfter(step)

\* C24: tracing was started before the first instruction is dispatched: every
\* page operation is issued while the trace is recording.
C24_OpsWhileRecording ==
    [][ ops' # ops => (trace = "recording" /\ trace' = "recording") ]_vars

\* three operations have been issued and the trace is still recording
C24_Witness ==
    /\ Len(ops) = 3
    /\ trace = "recording"
    /\ pc = "loop"

\* C27: every instruction has at most one page operation, a failed operation
\* is the last one issued, and there are never more operations than
\* instructions.
C27_NoRetry ==
    /\ \A i \in 1..Len(testItem) :
           Cardinality({j \in 1..Len(ops) : ops[j].step = i}) <= 1
    /\ \A j \in 1..Len(ops) : ops[j].step \in 1..step
    /\ Len(ops) <= Len(testItem)
    /\ Len(ops) <= Len(jsonInstruction)
    /\ error = "PageError" => (pc = "raised" /\ ops[Len(ops)].step = step)

\* the second of two operations failed and an instruction is left over
C27_Witness ==
    /\ error = "PageError"
    /\ Len(ops) = 2
    /\ ops[1].step = 1
    /\ ops[2].step = 2
    /\ Len(testItem) = 3


----------------------------------------------------------------------------
(* Claims about selector synthesis, checked under SpecScrape *)

\* the lists whose getters try a fixed list of attribute candidates
CandidateLists == {"textareas", "inputs", "buttons", "labels"}

\* the value the selector compares against was read from the element
ReadFrom(sel, e) ==
    IF sel.kind = "eq" THEN sel.value \in e.attrs[sel.attr]
    ELSE e.text = sel.value

\* C25: a stored selector compares against a non-empty value that was read
\* from the record's element, never against an empty or defaulted one.
C25_NoEmptyCandidate ==
    \A list \in CandidateLists :
        \A k \in 1..Len(scraped[list]) :
            \A sel \in scraped[list][k].xpath :
                /\ sel.value # <<>>
                /\ ReadFrom(sel, dom[scraped[list][k].el])

\* C29: the one element a stored selector locates is the element of the
\* record it is stored on.
C29_SelectorFindsOwnElement ==
    \A list \in CandidateLists :
        \A k \in 1..Len(scraped[list]) :
            \A sel \in scraped[list][k].xpath :
                Located(sel, dom) = {scraped[list][k].el}


----------------------------------------------------------------------------
(* main.py: main, from the first LLM call to its return value *)

\* what gemini_client_process can hand back (util.py:258-272): an error
\* response, whose content is None, or a text that holds a JSON object, the
\* empty object or something json.loads rejects, inside a ``` fence, bare, or
\* bare with prose around it
Responses ==
    {[status |-> "error", wrap |-> "none", body |-> "none"]}
        \cup [status : {"success"}, wrap : {"fence", "bare", "prose"},
              body : {"object", "empty", "garbage"}]

\* util.py:64-93: the fenced part, or else the whole content, goes to
\* json.loads; every exception, also the TypeError on a None content, gives None
extract_json(r) ==
    IF r.status = "error" \/ r.wrap = "prose" \/ r.body = "garbage" THEN "None"
    ELSE IF r.body = "empty" THEN "{}"
    ELSE "object"

\* `not json_data`: None and the empty object are falsy
Falsy(j) == j \in {"None", "{}"}

FailedResponse == "Failed to get response from Gemini"
FailedExtract == "Failed to extract JSON from the prompt response after 3 attempts"

InitMain ==
    /\ jsonInstruction = <<>>
    /\ common_prefix = <<>>
    /\ testItem = <<>>
    /\ pc = "main"
    /\ step = 0
    /\ ops = <<>>
    /\ sleeps = <<>>
    /\ page = NoPage
    /\ trace = "off"
    /\ traceZip = FALSE
    /\ browser = "none"
    /\ error = ""
    /\ dom = <<>>
    /\ scraped = NoScrape
    /\ unreadable = {}
    /\ engine = InHandleRun
    /\ main = MainStart

\* main.py:186-193
FirstExtract(r) ==
    /\ main.at = "prompt"
    /\ main' = IF r.status = "error"
               THEN [main EXCEPT !.at = "returned", !.responses = <<r>>,
                                 !.result = <<FailedResponse, FALSE>>]
               ELSE [main EXCEPT !.at = "while", !.responses = <<r>>,
                                 !.json_data = extract_json(r), !.extractions = 1,
                                 !.count = 0]
    /\ UNCHANGED <<pc, execVars, scrapeVars, engine>>

\* one pass of the while loop, main.py:194-201
Retry(r) ==
    /\ main.at = "while"
    /\ Falsy(main.json_data)
    /\ main' = [main EXCEPT
                   !.responses = Append(@, r),
                   !.json_data = extract_json(r),
                   !.extractions = @ + 1,
                   !.count = @ + 1,
                   !.at = IF main.count + 1 > 3 THEN "returned" ELSE "while",
                   !.result = IF main.count + 1 > 3 THEN <<FailedExtract, FALSE>> ELSE @]
    /\ UNCHANGED <<pc, execVars, scrapeVars, engine>>

\* main.py:204-205, reached when the while condition is false
CallRunEngine ==
    /\ main.at = "while"
    /\ ~Falsy(main.json_data)
    /\ main' = [main EXCEPT !.at = "returned", !.passed = main.json_data,
                            !.result = <<"msg", TRUE>>]
    /\ UNCHANGED <<pc, execVars, scrapeVars, engine>>

NextMain ==
    \/ \E r \in Responses : FirstExtract(r)
    \/ \E r \in Responses : Retry(r)
    \/ CallRunEngine

SpecMain == InitMain /\ [][NextMain]_vars

----------------------------------------------------------------------------
(* Claims about main, checked under SpecMain *)

\* C26: for one prompt the LLM is called, and JSON extraction attempted, at
\* most 3 times before main gives up with the "after 3 attempts" failure.
C26_AtMostThreeAttempts ==
    /\ Len(main.responses) <= 3
    /\ main.extractions <= 3

\* C30: the "Failed to extract JSON" result is returned only when no attempt
\* yielded JSON, and otherwise runEngine is called with the JSON extracted.
C30_SuccessNeverDiscarded ==
    main.at = "returned" =>
        /\ main.result[1] = FailedExtract
               => \A i \in 1..Len(main.responses) : extract_json(main.responses[i]) = "None"
        /\ (main.result[1] # FailedResponse
               /\ \E i \in 1..Len(main.responses) : extract_json(main.responses[i]) # "None")
               => main.passed # "None"

----------------------------------------------------------------------------
(* Claim about normalisation, checked under SpecNorm *)

\* C28: normalising a mapping with distinct keys gives distinct keys: the
\* normalised mapping has as many entries as the input and entry i keeps the
\* value of instruction i.
C28_NoInstructionLost ==
    pc = "normalized" =>
        /\ Len(testItem) = Len(jsonInstruction)
        /\ Distinct(Keys(testItem))
        /\ \A i \in 1..Len(jsonInstruction) :
               i <= Len(testItem) => testItem[i].value = jsonInstruction[i].value


----------------------------------------------------------------------------
(* Claim about the dispatcher's lifecycle, checked under SpecEngine *)

\* 4.2's states read off the position of testExecution
DispatcherState ==
    CASE pc = "start" -> "Idle"
      [] pc \in {"open", "loop"} -> "Running"
      [] pc = "returned" -> "Completed"
      [] OTHER -> "Failed"

\* every instruction was dispatched, one after the other
AllProcessedInOrder ==
    /\ step = Len(testItem)
    /\ \A a, b \in 1..Len(ops) : a < b => ops[a].step < ops[b].step
    /\ \A j \in 1..Len(ops) : ops[j].step \in 1..Len(testItem)

\* what is left to do: the phases before the loop, then the instructions
Remaining ==
    CASE pc = "start" -> Len(jsonInstruction) + 3
      [] pc = "open" -> Len(testItem) + 2
      [] pc = "loop" -> Len(testItem) - step + 1
      [] OTHER -> 0

\* C23: a run starts Idle and ends in exactly one of Completed and Failed: as
\* long as it is in neither it is at a position from which Normalize,
\* OpenSession, Step or Teardown goes on, and every step brings it closer to
\* the end; Completed is entered from Running only, after every
\* instruction was processed in order, tracing was stopped and the browser
\* closed; Failed carries the error; a terminal state is never left and no
\* page operation follows it.
C23_Lifecycle ==
    [][ /\ DispatcherState' = "Completed" =>
               /\ DispatcherState \in {"Running", "Completed"}
               /\ error' = ""
               /\ AllProcessedInOrder'
               /\ trace' = "stopped"
               /\ traceZip'
               /\ browser' = "closed"
        /\ DispatcherState' = "Failed" => error' # ""
        /\ ~Terminated => Remaining' < Remaining
        /\ pc' \in {"open", "loop", "returned", "raised"}
        /\ pc' = "loop" => step' <= Len(testItem')
        /\ Terminated => (pc' = pc /\ ops' = ops /\ page' = page /\ error' = error) ]_vars

\* the run completed after three page operations and its caller has returned
C23_Witness ==
    /\ DispatcherState = "Completed"
    /\ Len(ops) = 3
    /\ engine.at = "done"

====
